---- MODULE Spec2Model ----
(***************************************************************************)
(* Spending Insights: the upload -> validate -> read -> categorize ->      *)
(* clean -> display -> download pipeline of src/src/data.py, driven by     *)
(* main() of src/Home.py.                                                  *)
(*                                                                         *)
(* A DataFrame is a record [columns, index, rows]: the ordered column      *)
(* labels, the index labels, and one function (column label -> cell) per   *)
(* row.  DataFrames are objects: display_dataframe's local name df is a    *)
(* position in heap, so that an in-place column assignment and a function  *)
(* that returns a new frame are told apart.                                *)
(***************************************************************************)
EXTENDS Integers, Sequences, FiniteSets, TLC

VARIABLES
    pc,                   \* position inside main() / display_dataframe
    file,                 \* st.session_state["uploaded_file"]
    file_pos,             \* read position of the uploaded file's buffer
    validation_passed,    \* display_dataframe's local validation_passed
    heap,                 \* the DataFrame objects created during this run
    df,                   \* display_dataframe's local df: a position in heap, 0 = unbound
    cache,                \* the st.cache_data memo of categorize_df
    container,            \* the elements written to st.container()
    labeled_transactions, \* what container.data_editor returned
    calls,                \* the functions of data.py called during this run, in order
    exception             \* the uncaught exception that ended the run, if any

vars == <<pc, file, file_pos, validation_passed, heap, df, cache, container,
          labeled_transactions, calls, exception>>

-----------------------------------------------------------------------------
(* Bounds of the model *)

\* the largest number of data rows of an uploaded file
MaxRows == 3

-----------------------------------------------------------------------------
(* Values *)

\* pandas' missing value
NaN == "<NaN>"

\* Optional arguments: Python's None is the empty tuple, a given value x is <<x>>
None == <<>>

Some(x) == <<x>>

NoException == "<none>"

SUPPORTED_FILE_TYPES ==
    [csv  |-> "text/csv",
     txt  |-> "text/plain",
     xlsx |-> "application/vnd.openxmlformats-officedocument.spreadsheetml.sheet"]

\* SUPPORTED_FILE_TYPES.values()
SupportedValues == {SUPPORTED_FILE_TYPES[k] : k \in DOMAIN SUPPORTED_FILE_TYPES}

\* calendar.day_name, Monday first
day_name ==
    <<"Monday", "Tuesday", "Wednesday", "Thursday", "Friday", "Saturday", "Sunday">>

\* calendar.month_name[1..12]
month_name ==
    <<"January", "February", "March", "April", "May", "June", "July",
      "August", "September", "October", "November", "December">>

Range(s) == {s[i] : i \in DOMAIN s}

EmptyFrame == [columns |-> <<>>, index |-> <<>>, rows |-> <<>>]

-----------------------------------------------------------------------------
(* Uploaded files *)

\* Column labels an uploaded file may carry: the required ones, the optional
\* Category, and one unrelated extra column.
FileColumns == <<"Date", "Description", "Transaction Amount", "Category", "Memo">>

\* Example transactions (after uploaded_file_requirements' example table).  A
\* Date cell is the text m/d/yyyy, held as <<m, d, yyyy>>; an amount is in cents.
SampleRows ==
    << [Date |-> <<12, 31, 2023>>, Description |-> "Starbucks",
        TransactionAmount |-> -465, Category |-> "Coffee", Memo |-> "card"],
       [Date |-> <<1, 1, 2024>>, Description |-> "Trader Joe's",
        TransactionAmount |-> -5579, Category |-> "Groceries", Memo |-> "card"],
       [Date |-> <<2, 29, 2024>>, Description |-> "Venmo",
        TransactionAmount |-> 8000, Category |-> "Transfers", Memo |-> "app"],
       [Date |-> <<1, 1, 2024>>, Description |-> "ATM",
        TransactionAmount |-> -4000, Category |-> NaN, Memo |-> "cash"] >>

\* The cell of sample transaction s under column label c
Cell(s, c) ==
    CASE c = "Date"               -> s.Date
      [] c = "Description"        -> s.Description
      [] c = "Transaction Amount" -> s.TransactionAmount
      [] c = "Category"           -> s.Category
      [] c = "Memo"               -> s.Memo

\* MIME types a browser may report for a file the uploader accepts by extension
FileTypes == SupportedValues \cup {"application/vnd.ms-excel"}

\* The subsequence of s whose elements are in S
Filter(s, S) == SelectSeq(s, LAMBDA c : c \in S)

BoundedSeq(S, n) == UNION {[1..k -> S] : k \in 0..n}

\* Every file the model uploads: a type, a header, and up to MaxRows rows
Files ==
    { [type    |-> t,
       columns |-> Filter(FileColumns, C),
       rows    |-> [i \in DOMAIN picks |->
                       [c \in C |-> Cell(SampleRows[picks[i]], c)]]] :
        t \in FileTypes,
        C \in SUBSET Range(FileColumns),
        picks \in BoundedSeq(DOMAIN SampleRows, MaxRows) }

NoFile == [type |-> "", columns |-> <<>>, rows |-> <<>>]

-----------------------------------------------------------------------------
(* pandas *)

\* The day number (days since 1970-01-01) of the calendar date y-m-d: the value
\* a datetime64 column holds for it.
days_from_civil(y, m, d) ==
    LET yy  == IF m <= 2 THEN y - 1 ELSE y
        era == yy \div 400
        yoe == yy - era * 400
        mp  == IF m > 2 THEN m - 3 ELSE m + 9
        doy == (153 * mp + 2) \div 5 + d - 1
        doe == yoe * 365 + yoe \div 4 - yoe \div 100 + doy
    IN  era * 146097 + doe - 719468

\* The calendar date [year, month, day] of a day number
civil_from_days(z0) ==
    LET z   == z0 + 719468
        era == z \div 146097
        doe == z - era * 146097
        yoe == (doe - doe \div 1460 + doe \div 36524 - doe \div 146096) \div 365
        doy == doe - (365 * yoe + yoe \div 4 - yoe \div 100)
        mp  == (5 * doy + 2) \div 153
        d   == doy - (153 * mp + 2) \div 5 + 1
        m   == IF mp < 10 THEN mp + 3 ELSE mp - 9
        y   == yoe + era * 400
    IN  [year |-> IF m <= 2 THEN y + 1 ELSE y, month |-> m, day |-> d]

\* parse_dates: the text m/d/yyyy becomes a datetime64 value
to_datetime(text) == days_from_civil(text[3], text[1], text[2])

\* Series.dt.strftime("%A"): 1970-01-01 was a Thursday
strftime_A(days) == day_name[((days + 3) % 7) + 1]

\* Series.dt.strftime("%B")
strftime_B(days) == month_name[civil_from_days(days).month]

\* Series.dt.year
dt_year(days) == civil_from_days(days).year

\* pd.read_csv / pd.read_excel: the header and the first nrows rows (all of
\* them when nrows is None), a fresh RangeIndex, and the parse_dates columns
\* converted to datetime64.
pd_read(f, nrows, parse_dates) ==
    LET n     == IF nrows = None \/ nrows[1] >= Len(f.rows)
                 THEN Len(f.rows) ELSE nrows[1]
        dates == IF parse_dates = None THEN {} ELSE Range(parse_dates[1])
    IN  [columns |-> f.columns,
         index   |-> [i \in 1..n |-> i - 1],
         rows    |-> [i \in 1..n |->
                        [c \in Range(f.columns) |->
                            IF c \in dates THEN to_datetime(f.rows[i][c])
                            ELSE f.rows[i][c]]]]

\* df[col] = values, values aligned on the index: an existing column is
\* overwritten in place, a new one is appended after the others.  values maps
\* index labels to cells; a label it lacks gets NaN.
setitem(frame, col, values) ==
    [columns |-> IF col \in Range(frame.columns) THEN frame.columns
                 ELSE Append(frame.columns, col),
     index   |-> frame.index,
     rows    |-> [i \in DOMAIN frame.rows |->
                    [c \in Range(frame.columns) \cup {col} |->
                        IF c = col
                        THEN IF frame.index[i] \in DOMAIN values
                             THEN values[frame.index[i]] ELSE NaN
                        ELSE frame.rows[i][c]]]]

\* pd.Series(): no labels, no values
pd_Series == <<>>

\* One field of the .dt accessor for a datetime64 value
dt_field(days, field) ==
    CASE field = "%A"   -> strftime_A(days)
      [] field = "%B"   -> strftime_B(days)
      [] field = "year" -> dt_year(days)

\* df[col].dt.<field>: the Series of that field of every cell of the column,
\* by index label
column_dt(frame, col, field) ==
    [lbl \in Range(frame.index) |->
        dt_field(frame.rows[CHOOSE i \in DOMAIN frame.index :
                                frame.index[i] = lbl][col], field)]

\* The positions 1..n of the frame's rows, ordered by column `by`; rows of
\* equal key keep their relative order.
RECURSIVE argsort(_, _, _, _)
argsort(frame, by, ascending, n) ==
    IF n = 0 THEN <<>>
    ELSE LET ord == argsort(frame, by, ascending, n - 1)
             key(p) == frame.rows[p][by]
             Before(q) == IF ascending THEN key(q) <= key(n) ELSE key(q) >= key(n)
             k == Cardinality({j \in DOMAIN ord : Before(ord[j])})
         IN  SubSeq(ord, 1, k) \o <<n>> \o SubSeq(ord, k + 1, Len(ord))

\* df.sort_values(by=..., ascending=...): a new frame, rows and their index
\* labels reordered together
sort_values(frame, by, ascending) ==
    LET ord == argsort(frame, by, ascending, Len(frame.rows))
    IN  [columns |-> frame.columns,
         index   |-> [i \in DOMAIN ord |-> frame.index[ord[i]]],
         rows    |-> [i \in DOMAIN ord |-> frame.rows[ord[i]]]]

\* sep.join(items)
RECURSIVE join(_, _)
join(sep, items) ==
    IF items = <<>> THEN ""
    ELSE IF Len(items) = 1 THEN items[1]
    ELSE items[1] \o sep \o join(sep, Tail(items))

-----------------------------------------------------------------------------
(* src/src/data.py *)

\* What a call did: the exception it raised (NoException if it returned), the
\* exception's message, the value it returned, the functions of data.py it
\* called, and for a function given a DataFrame the contents of that argument
\* object after the call.
Returned(v, called) ==
    [raised |-> NoException, message |-> "", value |-> v, calls |-> called]

Raised(exc, msg, v, called) ==
    [raised |-> exc, message |-> msg, value |-> v, calls |-> called]

\* df.to_csv(index=False): the header line, then one line of cells per row
df_to_csv(frame) ==
    <<frame.columns>> \o
    [i \in DOMAIN frame.rows |->
        [j \in DOMAIN frame.columns |-> frame.rows[i][frame.columns[j]]]]

\* read_uploaded_file: one branch per supported type assigns df; with no branch
\* taken, "return df" reads an unbound local.
read_uploaded_file(f, nrows, parse_dates) ==
    IF f.type = SUPPORTED_FILE_TYPES.csv
    THEN Returned(pd_read(f, nrows, parse_dates), <<>>)
    ELSE IF f.type = SUPPORTED_FILE_TYPES.txt
    THEN Returned(pd_read(f, nrows, parse_dates), <<>>)
    ELSE IF f.type = SUPPORTED_FILE_TYPES.xlsx
    THEN Returned(pd_read(f, nrows, parse_dates), <<>>)
    ELSE Raised("UnboundLocalError", "", EmptyFrame, <<>>)

required_columns == <<"Date", "Description", "Transaction Amount">>

\* Faulty variant: missing columns make the function return False, as its
\* docstring suggests, instead of raising
validate_returns_false(f) ==
    IF f.type \notin SupportedValues
    THEN Raised("ValueError",
                "Unsupported file type. Supported types are CSV, TXT, and XLSX",
                FALSE, <<>>)
    ELSE LET scan == read_uploaded_file(f, Some(1), None)
             file_columns == Range(scan.value.columns)
             missing_columns ==
                 SelectSeq(required_columns, LAMBDA column : column \notin file_columns)
         IN  IF scan.raised # NoException
             THEN Raised(scan.raised, scan.message, FALSE, <<"read_uploaded_file">>)
             ELSE Returned(Len(missing_columns) = 0, <<"read_uploaded_file">>)

\* Faulty variant: the file type is not checked before the columns are scanned
validate_without_type_check(f) ==
    LET scan == read_uploaded_file(f, Some(1), None)
        file_columns == Range(scan.value.columns)
        missing_columns ==
            SelectSeq(required_columns, LAMBDA column : column \notin file_columns)
    IN  IF scan.raised # NoException
        THEN Raised(scan.raised, scan.message, FALSE, <<"read_uploaded_file">>)
        ELSE IF Len(missing_columns) > 0
        THEN Raised("ValueError",
                    "File is missing required columns: "
                        \o join(", ", missing_columns),
                    FALSE, <<"read_uploaded_file">>)
        ELSE Returned(TRUE, <<"read_uploaded_file">>)

validate_uploaded_file(f) ==
    IF f.type \notin SupportedValues
    THEN Raised("ValueError",
                "Unsupported file type. Supported types are CSV, TXT, and XLSX",
                FALSE, <<>>)
    ELSE LET scan == read_uploaded_file(f, Some(1), None)
             file_columns == Range(scan.value.columns)
             missing_columns ==
                 SelectSeq(required_columns, LAMBDA column : column \notin file_columns)
         IN  IF scan.raised # NoException
             THEN Raised(scan.raised, scan.message, FALSE, <<"read_uploaded_file">>)
             ELSE IF Len(missing_columns) > 0
             THEN Raised("ValueError",
                         "File is missing required columns: "
                             \o join(", ", missing_columns),
                         FALSE, <<"read_uploaded_file">>)
             ELSE Returned(TRUE, <<"read_uploaded_file">>)

\* Faulty variant: rows that have no label get "Uncategorized" and rows that
\* have one lose it (the branches of the fill swapped)
categorize_df_swapped(frame, categories, num_categories) ==
    LET old(i) == IF "Category" \in Range(frame.columns)
                  THEN frame.rows[i]["Category"] ELSE NaN
        labels == [lbl \in Range(frame.index) |->
                      LET i == CHOOSE j \in DOMAIN frame.index : frame.index[j] = lbl
                      IN  IF old(i) = NaN THEN "Uncategorized" ELSE NaN]
        out == setitem(frame, "Category", labels)
    IN  [raised |-> NoException, message |-> "", calls |-> <<>>,
         arg |-> out, value |-> out, returns_arg |-> TRUE]

\* Faulty variant: a Category column that came with the file is kept; only a
\* missing column is created
categorize_df_keep_existing(frame, categories, num_categories) ==
    LET out == IF "Category" \in Range(frame.columns) THEN frame
               ELSE setitem(frame, "Category", pd_Series)
    IN  [raised |-> NoException, message |-> "", calls |-> <<>>,
         arg |-> out, value |-> out, returns_arg |-> TRUE]

\* categorize_df's body: the Category column is assigned an empty Series, in
\* place; the argument object itself is returned.  categories and
\* num_categories are not read.
categorize_df(frame, categories, num_categories) ==
    LET out == setitem(frame, "Category", pd_Series)
    IN  [raised |-> NoException, message |-> "", calls |-> <<>>,
         arg |-> out, value |-> out, returns_arg |-> TRUE]

\* Faulty variant: sort_values with its default ascending=True
clean_df_ascending(frame) ==
    LET df1 == setitem(frame, "Day of Week", column_dt(frame, "Date", "%A"))
        df2 == setitem(df1, "Month", column_dt(df1, "Date", "%B"))
        df3 == setitem(df2, "Year", column_dt(df2, "Date", "year"))
    IN  [raised |-> NoException, message |-> "", calls |-> <<>>,
         arg |-> df3, value |-> sort_values(df3, "Date", TRUE),
         returns_arg |-> FALSE]

\* clean_df: three column assignments on the argument object, then
\* sort_values, which builds the frame that is returned
clean_df(frame) ==
    LET df1 == setitem(frame, "Day of Week", column_dt(frame, "Date", "%A"))
        df2 == setitem(df1, "Month", column_dt(df1, "Date", "%B"))
        df3 == setitem(df2, "Year", column_dt(df2, "Date", "year"))
    IN  [raised |-> NoException, message |-> "", calls |-> <<>>,
         arg |-> df3, value |-> sort_values(df3, "Date", FALSE),
         returns_arg |-> FALSE]

\* st.cache_data's key for a call of categorize_df: the contents of its arguments
cache_key(frame, categories, num_categories) ==
    <<frame, categories, num_categories>>

\* An element written to the page
Element(kind, body) == [kind |-> kind, body |-> body]

-----------------------------------------------------------------------------
(* The state machine: main() of Home.py reruns on every upload and calls     *)
(* display_dataframe, which is followed statement by statement.             *)

Init ==
    /\ pc = "idle"
    /\ file = NoFile
    /\ file_pos = "start"
    /\ validation_passed = FALSE
    /\ heap = <<>>
    /\ df = 0
    /\ cache = {}
    /\ container = <<>>
    /\ labeled_transactions = EmptyFrame
    /\ calls = <<>>
    /\ exception = NoException

\* The user uploads a file; the script reruns, main() finds
\* st.session_state["uploaded_file"] set and calls display_dataframe, which
\* opens a fresh container.
main ==
    /\ pc = "idle"
    /\ \E f \in Files : file' = f
    /\ pc' = "validate"
    /\ calls' = <<"display_dataframe">>
    /\ UNCHANGED <<file_pos, validation_passed, heap, df, cache, container,
                   labeled_transactions, exception>>

\* The try/except around validate_uploaded_file and the branch on its result;
\* after_error is the value the except clause gives validation_passed.
ValidateStep(after_error) ==
    /\ pc = "validate"
    /\ LET r == validate_uploaded_file(file)
           called == calls \o <<"validate_uploaded_file">> \o r.calls
       IN  /\ calls' = called
           /\ file_pos' = IF r.calls = <<>> THEN file_pos ELSE "read"
           /\ IF r.raised = NoException
              THEN /\ validation_passed' = r.value
                   /\ pc' = IF r.value THEN "read" ELSE "return"
                   /\ UNCHANGED <<container, exception>>
              ELSE IF r.raised = "ValueError"
              THEN /\ container' = Append(container, Element("error", r.message))
                   /\ validation_passed' = after_error
                   /\ pc' = IF after_error THEN "read" ELSE "return"
                   /\ UNCHANGED exception
              ELSE /\ exception' = r.raised
                   /\ pc' = "return"
                   /\ UNCHANGED <<container, validation_passed>>
    /\ UNCHANGED <<file, heap, df, cache, labeled_transactions>>

\* Faulty variant: the except clause reports the error and lets the run go on
Validate_ErrorNotFatal == ValidateStep(TRUE)

\* try: validation_passed = validate_uploaded_file(file)
\* except ValueError as e: container.error(e); validation_passed = False
\* if validation_passed: ...
\* Any other exception leaves display_dataframe.
Validate == ValidateStep(FALSE)

\* file.seek(0); df = read_uploaded_file(file=file, parse_dates=["Date"])
Read ==
    /\ pc = "read"
    /\ LET r == read_uploaded_file(file, None, Some(<<"Date">>))
       IN  /\ calls' = calls \o <<"read_uploaded_file">>
           /\ file_pos' = "read"
           /\ IF r.raised = NoException
              THEN /\ heap' = Append(heap, r.value)
                   /\ df' = Len(heap) + 1
                   /\ pc' = "categorize"
                   /\ UNCHANGED exception
              ELSE /\ exception' = r.raised
                   /\ pc' = "return"
                   /\ UNCHANGED <<heap, df>>
    /\ UNCHANGED <<file, validation_passed, cache, container, labeled_transactions>>

\* df = categorize_df(df=df), through st.cache_data: a call whose arguments
\* are in the memo returns a copy of the stored result and does not run the
\* body; otherwise the body runs on the argument object and its result is
\* stored.
Categorize ==
    /\ pc = "categorize"
    /\ LET key == cache_key(heap[df], None, None)
       IN  IF \E e \in cache : e.key = key
           THEN LET hit == CHOOSE e \in cache : e.key = key
                IN  /\ heap' = Append(heap, hit.value)
                    /\ df' = Len(heap) + 1
                    /\ calls' = calls
                    /\ pc' = "clear"
                    /\ UNCHANGED <<cache, exception>>
           ELSE LET r == categorize_df(heap[df], None, None)
                    mutated == [heap EXCEPT ![df] = r.arg]
                IN  /\ calls' = calls \o <<"categorize_df">>
                    /\ IF r.raised = NoException
                       THEN /\ heap' = IF r.returns_arg THEN mutated
                                       ELSE Append(mutated, r.value)
                            /\ df' = IF r.returns_arg THEN df ELSE Len(heap) + 1
                            /\ cache' = cache \cup {[key |-> key, value |-> r.value]}
                            /\ pc' = "clear"
                            /\ UNCHANGED exception
                       ELSE /\ heap' = mutated
                            /\ exception' = r.raised
                            /\ pc' = "return"
                            /\ UNCHANGED <<df, cache>>
    /\ UNCHANGED <<file, file_pos, validation_passed, container, labeled_transactions>>

\* Faulty variant: the memo is not cleared
ClearCache_Missing ==
    /\ pc = "clear"
    /\ pc' = "clean"
    /\ UNCHANGED <<file, file_pos, validation_passed, heap, df, cache, container,
                   labeled_transactions, calls, exception>>

\* categorize_df.clear()
ClearCache ==
    /\ pc = "clear"
    /\ cache' = {}
    /\ pc' = "clean"
    /\ UNCHANGED <<file, file_pos, validation_passed, heap, df, container,
                   labeled_transactions, calls, exception>>

\* df = clean_df(df=df)
Clean ==
    /\ pc = "clean"
    /\ LET r == clean_df(heap[df])
           mutated == [heap EXCEPT ![df] = r.arg]
       IN  /\ heap' = IF r.returns_arg THEN mutated ELSE Append(mutated, r.value)
           /\ df' = IF r.returns_arg THEN df ELSE Len(heap) + 1
    /\ calls' = calls \o <<"clean_df">>
    /\ pc' = "display"
    /\ UNCHANGED <<file, file_pos, validation_passed, cache, container,
                   labeled_transactions, exception>>

\* labeled_transactions = container.data_editor(data=df, ...): the table is
\* shown and handed back (as shown, before any edit by the user)
Display ==
    /\ pc = "display"
    /\ container' = Append(container, Element("data_editor", heap[df]))
    /\ labeled_transactions' = heap[df]
    /\ pc' = "download"
    /\ UNCHANGED <<file, file_pos, validation_passed, heap, df, cache, calls,
                   exception>>

\* container.download_button(data=df_to_csv(df=labeled_transactions), ...)
Download ==
    /\ pc = "download"
    /\ container' = Append(container,
                           Element("download_button", df_to_csv(labeled_transactions)))
    /\ calls' = calls \o <<"df_to_csv">>
    /\ pc' = "return"
    /\ UNCHANGED <<file, file_pos, validation_passed, heap, df, cache,
                   labeled_transactions, exception>>

\* return container (or an uncaught exception leaves display_dataframe):
\* main() and the script run end.  The run's locals and the page it drew are
\* dropped and the uploader waits for the next file; the st.cache_data memo
\* is process-wide and outlives the run.
Return ==
    /\ pc = "return"
    /\ pc' = "idle"
    /\ file' = NoFile
    /\ file_pos' = "start"
    /\ validation_passed' = FALSE
    /\ heap' = <<>>
    /\ df' = 0
    /\ container' = <<>>
    /\ labeled_transactions' = EmptyFrame
    /\ calls' = <<>>
    /\ exception' = NoException
    /\ UNCHANGED cache

Next ==
    \/ main
    \/ Validate
    \/ Read
    \/ Categorize
    \/ ClearCache
    \/ Clean
    \/ Display
    \/ Download
    \/ Return

Spec == Init /\ [][Next]_vars

-----------------------------------------------------------------------------
(* Properties *)

\* Argument values tried for categorize_df's categories and num_categories
CategoriesArgs == {None, Some(<<"Coffee", "Shopping">>)}

NumCategoriesArgs == {None, Some(-1), Some(0), Some(2)}

Supported(f) == f.type \in SupportedValues

HasRequired(f) == Range(required_columns) \subseteq Range(f.columns)

Ran(fn) == fn \in Range(calls)

Count(fn) == Cardinality({i \in DOMAIN calls : calls[i] = fn})

\* The tables / other elements of one kind on the page
Shown(kind) == {container[i].body : i \in {j \in DOMAIN container : container[j].kind = kind}}

\* The file as pandas parses it for display_dataframe, before any later step
Parsed(f) == pd_read(f, None, Some(<<"Date">>))

\* The Category cells of a frame, row by row
CategoryOf(frame) == [i \in DOMAIN frame.rows |-> frame.rows[i]["Category"]]

AfterCategorize == pc \in {"clear", "clean", "display", "download"}

\* C1: for every validated upload with at least one row, after categorize_df
\* has run, and in the table handed to the data editor, every row's Category is
\* populated: neither NaN nor the empty string.
C1_CategoryPopulated ==
    /\ AfterCategorize =>
          \A i \in DOMAIN heap[df].rows :
              heap[df].rows[i]["Category"] \notin {NaN, ""}
    /\ \A t \in Shown("data_editor") :
          \A i \in DOMAIN t.rows : t.rows[i]["Category"] \notin {NaN, ""}

\* C2: categorize_df raises InvalidArgument, and returns no table, whenever the
\* batch has no rows or num_categories is 0 or negative.
C2_InvalidArgumentRaised ==
    /\ pc = "categorize" =>
          \A c \in CategoriesArgs, n \in NumCategoriesArgs :
              (heap[df].rows = <<>> \/ (n # None /\ n[1] <= 0)) =>
                  categorize_df(heap[df], c, n).raised = "InvalidArgument"
    /\ (AfterCategorize /\ file.rows = <<>>) => exception = "InvalidArgument"

\* The uploads validate_uploaded_file rejects with ValueError
Rejected(f) == ~Supported(f) \/ ~HasRequired(f)

ValidationDone == pc # "validate" /\ Ran("validate_uploaded_file")

\* C3: when validate_uploaded_file raises ValueError the error goes to
\* container.error and nothing later runs: the file is not read again,
\* categorize_df and clean_df are not called, no data editor and no download
\* button are made.  categorize_df is called only after validation returned True.
C3_RejectedUploadStops ==
    /\ (file # NoFile /\ Rejected(file)) =>
          /\ Count("read_uploaded_file") <= 1
          /\ ~Ran("categorize_df") /\ ~Ran("clean_df") /\ ~Ran("df_to_csv")
          /\ Shown("data_editor") = {} /\ Shown("download_button") = {}
          /\ df = 0
          /\ ValidationDone =>
                /\ pc = "return"
                /\ Len(container) = 1 /\ container[1].kind = "error"
                /\ exception = NoException
    /\ (Ran("categorize_df") \/ pc \in {"categorize", "clear"}) =>
          /\ validation_passed = TRUE
          /\ \E i, j \in DOMAIN calls :
                /\ i < j
                /\ calls[i] = "validate_uploaded_file"
                /\ calls[j] = "read_uploaded_file"
                /\ \A k \in DOMAIN calls : calls[k] = "categorize_df" => j < k

\* A rejected upload went through validation and the run is about to return
C3_Witness ==
    /\ pc = "return"
    /\ Supported(file) /\ ~HasRequired(file) /\ Len(file.rows) >= 2
    /\ container = <<Element("error", "File is missing required columns: Description")>>

\* The text after "File is missing required columns: " for a file: the missing
\* required columns in the order Date, Description, Transaction Amount
MissingList(f) ==
    LET d == "Date" \notin Range(f.columns)
        s == "Description" \notin Range(f.columns)
        a == "Transaction Amount" \notin Range(f.columns)
    IN  (IF d THEN "Date" ELSE "")
        \o (IF d /\ (s \/ a) THEN ", " ELSE "")
        \o (IF s THEN "Description" ELSE "")
        \o (IF s /\ a THEN ", " ELSE "")
        \o (IF a THEN "Transaction Amount" ELSE "")

C9_ReadOnlySupported ==
    /\ exception # "UnboundLocalError"
    /\ Ran("read_uploaded_file") => Supported(file)
    /\ (file # NoFile /\ ~Supported(file) /\ ValidationDone) =>
          /\ calls = <<"display_dataframe", "validate_uploaded_file">>
          /\ file_pos = "start"
          /\ container = <<Element("error",
                "Unsupported file type. Supported types are CSV, TXT, and XLSX")>>
    /\ pc = "categorize" => (df # 0 /\ heap[df].columns = file.columns)

\* A file of unsupported type, with every required column, has been rejected unread
C9_Witness ==
    /\ pc = "return"
    /\ ~Supported(file) /\ HasRequired(file) /\ file.rows # <<>>
    /\ ~Ran("read_uploaded_file")
    /\ Len(container) = 1

\* The table display_dataframe hands to the data editor, once clean_df has made it
CleanedTables ==
    (IF pc = "display" THEN {heap[df]} ELSE {}) \cup Shown("data_editor")

\* Row i of table t is row lbl + 1 of the upload, lbl its index label: same
\* date, and the same cells in every other column of the file but Category
SameTransaction(t, i, f) ==
    LET src == Parsed(f).rows[t.index[i] + 1]
    IN  \A c \in Range(f.columns) \ {"Category"} : t.rows[i][c] = src[c]

\* C5: the table handed to the data editor is sorted by Date descending (each
\* row's Date >= the next row's), and its rows are a permutation of the input
\* rows: none added, dropped or duplicated.
C5_SortedPermutation ==
    \A t \in CleanedTables :
        /\ \A i \in 1..(Len(t.rows) - 1) : t.rows[i]["Date"] >= t.rows[i + 1]["Date"]
        /\ Len(t.rows) = Len(file.rows) /\ Len(t.index) = Len(file.rows)
        /\ Range(t.index) = {k - 1 : k \in DOMAIN file.rows}
        /\ \A i \in DOMAIN t.rows : SameTransaction(t, i, file)

\* A table of three rows is shown whose upload was in ascending date order, with two rows of one date
C5_Witness ==
    /\ pc = "download"
    /\ \E t \in Shown("data_editor") :
          /\ t.index = <<2, 0, 1>>
          /\ t.rows[2]["Date"] = t.rows[3]["Date"]
          /\ t.rows[1]["Date"] > t.rows[2]["Date"]

\* Zeller's congruence: the weekday name of the date written m/d/yyyy
WeekdayName(text) ==
    LET m == IF text[1] <= 2 THEN text[1] + 12 ELSE text[1]
        y == IF text[1] <= 2 THEN text[3] - 1 ELSE text[3]
        K == y % 100
        J == y \div 100
        h == (text[2] + (13 * (m + 1)) \div 5 + K + K \div 4 + J \div 4 + 5 * J) % 7
    IN  <<"Saturday", "Sunday", "Monday", "Tuesday", "Wednesday", "Thursday",
          "Friday">>[h + 1]

\* Every row of table t carries the weekday name, month name and year of the
\* date its transaction has in the upload
DerivedFields(t, f) ==
    \A i \in DOMAIN t.rows :
        LET text == f.rows[t.index[i] + 1]["Date"]
        IN  /\ t.rows[i]["Day of Week"] = WeekdayName(text)
            /\ t.rows[i]["Month"] = month_name[text[1]]
            /\ t.rows[i]["Year"] = text[3]

\* C6: clean_df is pure and total: it sets Day of Week, Month and Year from
\* each row's Date, it does not fail, and the table passed in is left unchanged.
C6_CleanPureTotal ==
    [][pc = "clean" =>
          /\ DerivedFields(heap'[df'], file)
          /\ exception' = NoException /\ pc' = "display"
          /\ heap'[df] = heap[df]]_vars

\* The part of C6 the code keeps: the derived fields of the table clean_df returns
CleanDerivedFields == \A t \in CleanedTables : DerivedFields(t, file)

\* C7: categorize_df is idempotent: for every batch and configuration,
\* applying it to its own output gives the same Category values as applying it once.
C7_CategorizeIdempotent ==
    /\ pc = "categorize" =>
          \A c \in CategoriesArgs, n \in NumCategoriesArgs :
              LET once  == categorize_df(heap[df], c, n).value
                  twice == categorize_df(once, c, n).value
              IN  CategoryOf(twice) = CategoryOf(once)
    /\ pc = "clear" =>
          CategoryOf(categorize_df(heap[df], None, None).value) = CategoryOf(heap[df])

\* categorize_df has run on an upload of three rows that came with Category labels
C7_Witness ==
    /\ pc = "clear" /\ Ran("categorize_df")
    /\ Len(heap[df].rows) = 3
    /\ "Category" \in Range(file.columns)
    /\ \E i \in DOMAIN file.rows : file.rows[i]["Category"] # NaN

\* What display_dataframe shows for a file, from the file alone
TableOf(f) ==
    clean_df(categorize_df(Parsed(f), None, None).value).value

\* C8: no categorized batch outlives its upload: the memo of categorize_df is
\* cleared right after the call, before clean_df and the display, so it is
\* empty whenever display_dataframe returns and when the next upload starts;
\* the table shown is a function of the current upload's contents alone.
C8_NoBatchPersists ==
    /\ cache # {} => (pc = "clear" /\ calls[Len(calls)] = "categorize_df")
    /\ pc \in {"return", "idle", "validate", "read", "categorize"} => cache = {}
    /\ \A t \in CleanedTables : t = TableOf(file)
    /\ pc \in {"download", "return"} /\ validation_passed =>
          Shown("data_editor") = {TableOf(file)}

\* The memo has been cleared after a categorize_df call and the run is returning its table
C8_Witness ==
    /\ pc = "return" /\ Ran("categorize_df") /\ cache = {}
    /\ \E t \in Shown("data_editor") : Len(t.rows) = 2

====
